---- MODULE Spec2Model ----
(***************************************************************************)
(* Rip & Ship order-created webhook: the four handler variants of the      *)
(* repository (index.js, api/orders-create.js handler, server.js, and the  *)
(* raw-body pages handler), run against one shared remote store.           *)
(***************************************************************************)
EXTENDS Integers, Sequences, FiniteSets, TLC

\* ------------------------------------------------------------------ bounds
MaxItems == 2        \* line items per order
MaxQty == 2          \* largest line item quantity
MaxAvail == 2        \* largest initial master available count
MaxSegments == 3     \* comma-separated segments of a generated tag string
MaxApply == 2        \* tagger applications in the tagger specification
NumDeliveries == 2   \* delivery slots

Deliveries == 1..NumDeliveries

\* ------------------------------------------------------- JavaScript values
\* "available can be null if item not tracked"
Null == -999

Min(a, b) == IF a <= b THEN a ELSE b

Max(a, b) == IF a >= b THEN a ELSE b

\* level.available ?? 0
NullishZero(a) == IF a = Null THEN 0 ELSE a

\* ToNumber(null) = 0 in relational and unary-minus expressions
ToNumber(a) == IF a = Null THEN 0 ELSE a

\* !x for identifiers and quantities (undefined, null and 0 are falsy)
Falsy(x) == x = Null \/ x = 0

\* ------------------------------------------------------------- tag strings
\* A string is a sequence of one-character strings.
Str_RIP_SHIP == <<"R", "I", "P", " ", "&", " ", "S", "H", "I", "P">>

Str_ripship == <<"r", "i", "p", "s", "h", "i", "p">>

IsSpace(c) == c = " "

RECURSIVE SplitFrom(_, _, _)
\* the pieces of s, cur being the piece read so far
SplitFrom(s, sep, cur) ==
  IF s = <<>> THEN <<cur>>
  ELSE IF Head(s) = sep THEN <<cur>> \o SplitFrom(Tail(s), sep, <<>>)
  ELSE SplitFrom(Tail(s), sep, Append(cur, Head(s)))

\* String.prototype.split(sep): always at least one (possibly empty) piece
Split(s, sep) == SplitFrom(s, sep, <<>>)

RECURSIVE TrimStart(_)
TrimStart(s) ==
  IF s # <<>> /\ IsSpace(s[1]) THEN TrimStart(Tail(s)) ELSE s

RECURSIVE TrimEnd(_)
TrimEnd(s) ==
  IF s # <<>> /\ IsSpace(s[Len(s)]) THEN TrimEnd(SubSeq(s, 1, Len(s) - 1)) ELSE s

Trim(s) == TrimEnd(TrimStart(s))

\* .map((t) => t.trim())
MapTrim(ts) == [k \in 1..Len(ts) |-> Trim(ts[k])]

RECURSIVE FilterBoolean(_)
\* .filter(Boolean): the empty string is falsy
FilterBoolean(ts) ==
  IF ts = <<>> THEN <<>>
  ELSE IF Head(ts) = <<>> THEN FilterBoolean(Tail(ts))
  ELSE <<Head(ts)>> \o FilterBoolean(Tail(ts))

RECURSIVE Join(_, _)
\* Array.prototype.join(sep)
Join(ts, sep) ==
  IF ts = <<>> THEN <<>>
  ELSE IF Len(ts) = 1 THEN ts[1]
  ELSE ts[1] \o sep \o Join(Tail(ts), sep)

Includes(ts, t) == \E k \in 1..Len(ts) : ts[k] = t

\* (order.tags || "").split(",").map((t) => t.trim()).filter(Boolean)
\* (each stage of the chain is bound to its value before the next reads it)
ParseTags(tags) ==
  CHOOSE r \in {FilterBoolean(trimmed) :
                  trimmed \in {MapTrim(pieces) : pieces \in {Split(tags, ",")}}} : TRUE

RECURSIVE Dedupe(_)
\* new Set(array) spread back to an array: first occurrences, insertion order
Dedupe(ts) ==
  IF ts = <<>> THEN <<>>
  ELSE LET init == Dedupe(SubSeq(ts, 1, Len(ts) - 1))
           last == ts[Len(ts)]
       IN IF Includes(init, last) THEN init ELSE Append(init, last)

\* mutant: the marker is pushed without the includes test
PushMarkerAlways(ts, marker) == Append(ts, marker)

\* if (!existingTags.includes("RIP & SHIP")) existingTags.push("RIP & SHIP")
PushMarker(ts, marker) == IF Includes(ts, marker) THEN ts ELSE Append(ts, marker)

\* mutant: the write carries the marker alone
TagsArrayMarkerOnly(tags) == Str_RIP_SHIP

\* tagOrderRipShip / server.js step 6: the tag string that is written
TagsArrayVariant(tags) ==
  CHOOSE r \in {Join(PushMarker(existingTags, Str_RIP_SHIP), <<",", " ">>) :
                  existingTags \in {ParseTags(tags)}} : TRUE

\* handler step "Tag the order": Set of trimmed tags, add("ripship"), join
TagsSetVariant(tags) ==
  CHOOSE r \in {Join(tagsSet, <<",", " ">>) :
                  tagsSet \in {Dedupe(Append(existing, Str_ripship)) :
                                 existing \in {ParseTags(tags)}}} : TRUE

\* ------------------------------------------------ the remote store (catalog)
\* Products 1 and 2 carry rip.master_sku; product 3 does not.  "MASTER-X"
\* names no variant.  Variant 10 + p belongs to product p.
NoValue == ""

ProductIds == {1, 2, 3}

VariantOfProduct(p) == 10 + p

\* GET /products/{id}/metafields.json?namespace=rip&key=master_sku
ProductMasterSku(p) ==
  CASE p = 1 -> "MASTER-1"
    [] p = 2 -> "MASTER-X"
    [] OTHER -> NoValue

\* GET /variants/{id}/metafields.json, the rip.master_sku entry
VariantMasterSku(v) == ProductMasterSku(v - 10)

\* GET /variants/{id}.json -> variant.inventory_item_id
InventoryItemOfVariant(v) == 90 + v

\* GET /variants.json?sku=... -> variants[0].inventory_item_id, 0 when none
MasterItemOfSku(sku) == IF sku = "MASTER-1" THEN 200 ELSE 0

SoldItems == {InventoryItemOfVariant(VariantOfProduct(p)) : p \in ProductIds}

MasterItems == {200}

InvItems == SoldItems \cup MasterItems

\* ------------------------------------------------------------ the requests
Variants == {"index", "handler", "server", "pages"}

LineItem(p, q) ==
  [product_id |-> p, variant_id |-> VariantOfProduct(p), quantity |-> q]

\* the rip & ship product in every quantity (0: a falsy quantity), the other
\* two one at a time
LineItems ==
  {LineItem(1, q) : q \in 0..MaxQty} \cup {LineItem(2, 1), LineItem(3, 1)}

LineItemSeqs == UNION {[1..n -> LineItems] : n \in 0..MaxItems}

OrderTagStrings == {<<>>, <<"v", "i", "p", ",", " ">> \o Str_RIP_SHIP}

Orders == [id : {1}, tags : OrderTagStrings, line_items : LineItemSeqs]

\* crypto.createHmac("sha256", secret).update(rawBody).digest("base64"),
\* abstracted to a string that is a function of the body
Digest(rawBody) == IF rawBody.json THEN <<"h", "J">> ELSE <<"h", "G">>

\* the x-shopify-hmac-sha256 header: absent, or a string
Absent == [present |-> FALSE, value |-> <<>>]

Header(s) == [present |-> TRUE, value |-> s]

HeadersFor(rawBody) ==
  { Header(Digest(rawBody)),                      \* the sender's signature
    Header(<<"h", "x">>),                         \* same length, wrong
    Header(<<"h">>),                              \* another length
    Absent }

\* crypto.timingSafeEqual(Buffer.from(a), Buffer.from(b)):
\* throws on undefined input and on different byte lengths
TimingSafeEqual(digest, hdr) ==
  IF ~hdr.present THEN "throw"
  ELSE IF Len(digest) # Len(hdr.value) THEN "throw"
  ELSE IF digest = hdr.value THEN "true" ELSE "false"

\* verifyShopifyHmac of index.js: if (!secret || !hmacHeader) return false
VerifyIndex(rawBody, hdr) ==
  IF ~hdr.present \/ hdr.value = <<>> THEN "false"
  ELSE TimingSafeEqual(Digest(rawBody), hdr)

\* verifyShopifyWebhook of server.js and verifyShopifyHmac of the pages handler
VerifyUnguarded(rawBody, hdr) == TimingSafeEqual(Digest(rawBody), hdr)

VerifyShopifyHmac(v, rawBody, hdr) ==
  IF v = "index" THEN VerifyIndex(rawBody, hdr) ELSE VerifyUnguarded(rawBody, hdr)

\* ------------------------------------------------------ the clamp formulas
\* mutant: the reversal is sent with the wrong sign
ReversalAdjustmentNegated(quantity) == 0 - quantity

\* index.js: adjustment: quantity
ReversalAdjustment(quantity) == quantity

\* mutant: an item is deducted in full or not at all
AdjustQtyAllOrNothing(quantity, masterAvailable) ==
  IF quantity <= masterAvailable THEN quantity ELSE 0

\* index.js: const adjustQty = Math.min(quantity, masterAvailable)
AdjustQty(quantity, masterAvailable) == Min(quantity, masterAvailable)

\* handler: const safeAdjustment = quantity > available ? -available : -quantity
SafeAdjustment(quantity, available) ==
  IF quantity > ToNumber(available) THEN 0 - ToNumber(available) ELSE 0 - quantity

\* server.js: available_adjustment: -quantity
ServerAdjustment(quantity) == 0 - quantity

\* POST /inventory_levels/adjust.json: a relative adjustment of a tracked level
Adjusted(inv, item, delta) ==
  [inv EXCEPT ![item] = IF @ = Null THEN Null ELSE @ + delta]

\* res.status(500) of every catch block
CatchStatus == 500

\* mutant: the flag is never honoured
ShouldTagNever(hasRipShip) == FALSE

\* mutant: the order is tagged whether or not an item was detected
ShouldTagAlways(hasRipShip) == TRUE

\* if (hasRipShip) / if (isRipShip)
ShouldTag(hasRipShip) == hasRipShip

\* the tag string each variant writes
WrittenTags(v, tags) ==
  IF v \in {"index", "server"} THEN TagsArrayVariant(tags) ELSE TagsSetVariant(tags)

\* ------------------------------------------------------------------- state
VARIABLES
  order,        \* the order the platform created (the webhook payload)
  inventory,    \* remote: inventory item -> available count, or Null
  orderTags,    \* remote: the order's tag string
  calls,        \* every remote call issued, in order
  pc,           \* delivery -> position of its handler
  req,          \* delivery -> the inbound request
  loc,          \* delivery -> the handler's local variables
  verified,     \* delivery -> outcome of signature verification
  decoded,      \* delivery -> the body has been interpreted as an order
  resolved,     \* delivery -> line items whose sold and master ids are known
  responses     \* delivery -> statuses sent

vars == <<order, inventory, orderTags, calls, pc, req, loc, verified, decoded,
          resolved, responses>>

NoRequest ==
  [variant |-> "none", method |-> "none", hmacHeader |-> Absent,
   rawBody |-> [json |-> FALSE]]

InitLoc ==
  [phase |-> 1, i |-> 1, hasRipShip |-> FALSE, ripLineItems |-> <<>>,
   masterSku |-> NoValue, ripInventoryItemId |-> 0,
   masterInventoryItemId |-> 0, masterAvailable |-> 0]

MasterLevels == {Null} \cup (-1..MaxAvail)

Init ==
  /\ order \in Orders
  /\ \E a \in MasterLevels :
       inventory = [it \in InvItems |-> IF it \in MasterItems THEN a ELSE 0]
  /\ orderTags = order.tags
  /\ calls = <<>>
  /\ pc = [d \in Deliveries |-> "Idle"]
  /\ req = [d \in Deliveries |-> NoRequest]
  /\ loc = [d \in Deliveries |-> InitLoc]
  /\ verified = [d \in Deliveries |-> "none"]
  /\ decoded = [d \in Deliveries |-> FALSE]
  /\ resolved = [d \in Deliveries |-> {}]
  /\ responses = [d \in Deliveries |-> <<>>]

\* ----------------------------------------------------------------- helpers
Items(d) == order.line_items

\* mutant: the loop walks the line items from the last to the first
CurLineReversed(d) ==
  IF req[d].variant = "server" /\ loc[d].phase = 2
  THEN loc[d].ripLineItems[loc[d].i].line
  ELSE Len(order.line_items) + 1 - loc[d].i

\* the line item the handler is working on
CurLine(d) ==
  IF req[d].variant = "server" /\ loc[d].phase = 2
  THEN loc[d].ripLineItems[loc[d].i].line
  ELSE loc[d].i

Call(d, op, line, item, val, tags, ok) ==
  [d |-> d, op |-> op, line |-> line, item |-> item, val |-> val,
   tags |-> tags, ok |-> ok]

\* res.status(s) ends the handler
\* mutant: the early answer is not returned from, so the final answer follows
RespondWithoutReturn(d, s) ==
  /\ pc' = [pc EXCEPT ![d] = "Responded"]
  /\ responses' = [responses EXCEPT ![d] =
       IF s = 200 THEN Append(@, s) ELSE @ \o <<s, 200>>]

Respond(d, s) ==
  /\ pc' = [pc EXCEPT ![d] = "Responded"]
  /\ responses' = [responses EXCEPT ![d] = Append(@, s)]

\* mutant: the catch block takes the reversal back when the master step fails
ThrowCompensating(d, c) ==
  LET sold == InventoryItemOfVariant(order.line_items[c.line].variant_id)
      back == 0 - order.line_items[c.line].quantity
  IN IF c.op = "readAvailable" \/ (c.op = "adjust" /\ c.item \in MasterItems)
     THEN /\ calls' = calls \o <<c, [c EXCEPT !.op = "adjust", !.item = sold,
                                              !.val = back, !.ok = TRUE]>>
          /\ inventory' = Adjusted(inventory, sold, back)
          /\ Respond(d, CatchStatus)
          /\ UNCHANGED <<order, orderTags, req, loc, verified, decoded, resolved>>
     ELSE /\ calls' = Append(calls, c)
          /\ Respond(d, CatchStatus)
          /\ UNCHANGED <<order, inventory, orderTags, req, loc, verified, decoded, resolved>>

\* mutant: the catch block answers 200 ("to avoid retries")
ThrowRespondOk(d, c) ==
  /\ calls' = Append(calls, c)
  /\ Respond(d, 200)
  /\ UNCHANGED <<order, inventory, orderTags, req, loc, verified, decoded, resolved>>

\* a rejected remote call throws; the catch block answers
Throw(d, c) ==
  /\ calls' = Append(calls, c)
  /\ Respond(d, CatchStatus)
  /\ UNCHANGED <<order, inventory, orderTags, req, loc, verified, decoded, resolved>>

\* continue: the next line item
Continue(d) ==
  /\ loc' = [loc EXCEPT ![d].i = @ + 1]
  /\ pc' = [pc EXCEPT ![d] = "LoopHead"]
  /\ UNCHANGED responses

\* --------------------------------------------------------------- operations
\* The platform (or anyone) posts to the webhook route.
Receive(d, v) ==
  /\ pc[d] = "Idle"
  /\ \E body \in {[json |-> TRUE], [json |-> FALSE]} :
     \E h \in HeadersFor(body) :
     \E m \in {"POST", "GET"} :
       \* Express routes only POST to the handler; the body parser in front
       \* of the api handler only passes JSON on
       /\ v \in {"index", "server"} => m = "POST"
       \* (that handler never reads the header: two values stand for all)
       /\ v = "handler" => body.json /\ h \in {Header(Digest(body)), Absent}
       /\ req' = [req EXCEPT ![d] =
            [variant |-> v, method |-> m, hmacHeader |-> h, rawBody |-> body]]
  /\ pc' = [pc EXCEPT ![d] = "Entry"]
  /\ loc' = [loc EXCEPT ![d] = InitLoc]
  /\ UNCHANGED <<order, inventory, orderTags, calls, verified, decoded,
                 resolved, responses>>

\* if (req.method !== "POST") return 405; handler: const order = req.body
\* mutant: a delivery for an order that already carries the marker is
\* acknowledged without processing
EntryChecksTag(d) ==
  /\ pc[d] = "Entry"
  /\ IF Includes(ParseTags(orderTags),
                 IF req[d].variant \in {"index", "server"}
                 THEN Str_RIP_SHIP ELSE Str_ripship)
     THEN Respond(d, 200) /\ UNCHANGED decoded
     ELSE IF req[d].variant \in {"handler", "pages"} /\ req[d].method # "POST"
     THEN Respond(d, 405) /\ UNCHANGED decoded
     ELSE IF req[d].variant = "handler"
     THEN /\ decoded' = [decoded EXCEPT ![d] = TRUE]
          /\ pc' = [pc EXCEPT ![d] = "LoopHead"]
          /\ UNCHANGED responses
     ELSE /\ pc' = [pc EXCEPT ![d] = "Verifying"]
          /\ UNCHANGED <<decoded, responses>>
  /\ UNCHANGED <<order, inventory, orderTags, calls, req, loc, verified, resolved>>

Entry(d) ==
  /\ pc[d] = "Entry"
  /\ IF req[d].variant \in {"handler", "pages"} /\ req[d].method # "POST"
     THEN Respond(d, 405) /\ UNCHANGED decoded
     ELSE IF req[d].variant = "handler"
     THEN /\ decoded' = [decoded EXCEPT ![d] = TRUE]
          /\ pc' = [pc EXCEPT ![d] = "LoopHead"]
          /\ UNCHANGED responses
     ELSE /\ pc' = [pc EXCEPT ![d] = "Verifying"]
          /\ UNCHANGED <<decoded, responses>>
  /\ UNCHANGED <<order, inventory, orderTags, calls, req, loc, verified, resolved>>

\* getRawBody, then verifyShopifyHmac / verifyShopifyWebhook
Verify(d) ==
  /\ pc[d] = "Verifying"
  /\ LET r == VerifyShopifyHmac(req[d].variant, req[d].rawBody, req[d].hmacHeader)
     IN /\ verified' = [verified EXCEPT ![d] = r]
        /\ CASE r = "true" -> pc' = [pc EXCEPT ![d] = "Decoding"] /\ UNCHANGED responses
             [] r = "false" -> Respond(d, 401)
             [] OTHER -> Respond(d, CatchStatus)
  /\ UNCHANGED <<order, inventory, orderTags, calls, req, loc, decoded, resolved>>

\* mutant: JSON.parse sits outside the try block; its exception ends the task
DecodeUncaught(d) ==
  /\ pc[d] = "Decoding"
  /\ IF req[d].rawBody.json
     THEN /\ decoded' = [decoded EXCEPT ![d] = TRUE]
          /\ pc' = [pc EXCEPT ![d] = "LoopHead"]
     ELSE /\ pc' = [pc EXCEPT ![d] = "Crashed"]
          /\ UNCHANGED decoded
  /\ UNCHANGED <<order, inventory, orderTags, calls, req, loc, verified,
                 resolved, responses>>

\* const order = JSON.parse(rawBody.toString("utf8"))
Decode(d) ==
  /\ pc[d] = "Decoding"
  /\ IF req[d].rawBody.json
     THEN /\ decoded' = [decoded EXCEPT ![d] = TRUE]
          /\ pc' = [pc EXCEPT ![d] = "LoopHead"]
          /\ UNCHANGED responses
     ELSE Respond(d, CatchStatus) /\ UNCHANGED decoded
  /\ UNCHANGED <<order, inventory, orderTags, calls, req, loc, verified, resolved>>

\* the guard at the top of the loop body
SkipsItem(v, li) ==
  CASE v = "index" -> Falsy(li.product_id) \/ Falsy(li.variant_id) \/ Falsy(li.quantity)
    [] v = "server" -> Falsy(li.variant_id) \/ Falsy(li.quantity)
    [] OTHER -> FALSE

\* mutant: server.js reconciles the items found so far before it has looked
\* up the metadata of the remaining line items
LoopHeadEager(d) ==
  /\ pc[d] = "LoopHead"
  /\ LET v == req[d].variant
         l == loc[d]
         n == IF v = "server" /\ l.phase = 2 THEN Len(l.ripLineItems) ELSE Len(Items(d))
     IN IF l.i > n \/ (v = "server" /\ l.phase = 1 /\ l.ripLineItems # <<>>)
        THEN IF v = "server" /\ l.phase = 1
             THEN IF l.ripLineItems = <<>>
                  THEN Respond(d, 200) /\ UNCHANGED loc
                  ELSE /\ loc' = [loc EXCEPT ![d].phase = 2, ![d].i = 1]
                       /\ UNCHANGED <<pc, responses>>
             ELSE IF v = "server" \/ ShouldTag(l.hasRipShip)
                  THEN /\ pc' = [pc EXCEPT ![d] = "Tagging"]
                       /\ UNCHANGED <<loc, responses>>
                  ELSE Respond(d, 200) /\ UNCHANGED loc
        ELSE IF v = "server" /\ l.phase = 2
             THEN /\ pc' = [pc EXCEPT ![d] = "GetVariant"]
                  /\ loc' = [loc EXCEPT ![d].masterSku = l.ripLineItems[l.i].masterSku]
                  /\ UNCHANGED responses
             ELSE IF SkipsItem(v, Items(d)[l.i])
                  THEN Continue(d)
                  ELSE /\ pc' = [pc EXCEPT ![d] = "GetMasterSku"]
                       /\ UNCHANGED <<loc, responses>>
  /\ UNCHANGED <<order, inventory, orderTags, calls, req, verified, decoded, resolved>>

\* for (const lineItem of lineItems) { ... } and what follows the loop
LoopHead(d) ==
  /\ pc[d] = "LoopHead"
  /\ LET v == req[d].variant
         l == loc[d]
         n == IF v = "server" /\ l.phase = 2 THEN Len(l.ripLineItems) ELSE Len(Items(d))
     IN IF l.i > n
        THEN IF v = "server" /\ l.phase = 1
             THEN IF l.ripLineItems = <<>>
                  THEN Respond(d, 200) /\ UNCHANGED loc
                  ELSE /\ loc' = [loc EXCEPT ![d].phase = 2, ![d].i = 1]
                       /\ UNCHANGED <<pc, responses>>
             ELSE IF v = "server" \/ ShouldTag(l.hasRipShip)
                  THEN /\ pc' = [pc EXCEPT ![d] = "Tagging"]
                       /\ UNCHANGED <<loc, responses>>
                  ELSE Respond(d, 200) /\ UNCHANGED loc
        ELSE IF v = "server" /\ l.phase = 2
             THEN /\ pc' = [pc EXCEPT ![d] = "GetVariant"]
                  /\ loc' = [loc EXCEPT ![d].masterSku = l.ripLineItems[l.i].masterSku]
                  /\ UNCHANGED responses
             ELSE IF SkipsItem(v, Items(d)[l.i])
                  THEN Continue(d)
                  ELSE /\ pc' = [pc EXCEPT ![d] = "GetMasterSku"]
                       /\ UNCHANGED <<loc, responses>>
  /\ UNCHANGED <<order, inventory, orderTags, calls, req, verified, decoded, resolved>>

\* getMasterSkuForProduct / getRipMasterSku / the variant metafields request
GetMasterSku(d) ==
  /\ pc[d] = "GetMasterSku"
  /\ LET v == req[d].variant
         k == CurLine(d)
         li == Items(d)[k]
         sku == IF v = "server" THEN VariantMasterSku(li.variant_id)
                ELSE ProductMasterSku(li.product_id)
     IN \E ok \in BOOLEAN :
          IF ~ok THEN Throw(d, Call(d, "getMasterSku", k, 0, 0, <<>>, FALSE))
          ELSE /\ calls' = Append(calls, Call(d, "getMasterSku", k, 0, 0, <<>>, TRUE))
               /\ IF sku = NoValue
                  THEN Continue(d)
                  ELSE IF v = "server"
                  THEN /\ loc' = [loc EXCEPT
                            ![d].ripLineItems = Append(@, [line |-> k, masterSku |-> sku]),
                            ![d].i = @ + 1]
                       /\ pc' = [pc EXCEPT ![d] = "LoopHead"]
                       /\ UNCHANGED responses
                  ELSE /\ loc' = [loc EXCEPT ![d].hasRipShip = TRUE, ![d].masterSku = sku]
                       /\ pc' = [pc EXCEPT ![d] = "GetVariant"]
                       /\ UNCHANGED responses
               /\ UNCHANGED <<order, inventory, orderTags, req, verified, decoded, resolved>>

\* getVariantById / shopify.get(`/variants/${variantId}.json`)
GetVariant(d) ==
  /\ pc[d] = "GetVariant"
  /\ LET v == req[d].variant
         k == CurLine(d)
         id == InventoryItemOfVariant(Items(d)[k].variant_id)
     IN \E ok \in BOOLEAN :
          IF ~ok THEN Throw(d, Call(d, "getVariant", k, 0, 0, <<>>, FALSE))
          ELSE /\ calls' = Append(calls, Call(d, "getVariant", k, id, 0, <<>>, TRUE))
               /\ IF v = "index" /\ Falsy(id)
                  THEN Continue(d)
                  ELSE /\ loc' = [loc EXCEPT ![d].ripInventoryItemId = id]
                       /\ pc' = [pc EXCEPT ![d] =
                            IF v \in {"index", "server"} THEN "FindMaster" ELSE "Reverse"]
                       /\ UNCHANGED responses
               /\ UNCHANGED <<order, inventory, orderTags, req, verified, decoded, resolved>>

\* getVariantBySku / findVariantBySku / the variants.json?sku= request
FindMaster(d) ==
  /\ pc[d] = "FindMaster"
  /\ LET v == req[d].variant
         k == CurLine(d)
         id == MasterItemOfSku(loc[d].masterSku)
     IN \E ok \in BOOLEAN :
          IF ~ok THEN Throw(d, Call(d, "findVariantBySku", k, 0, 0, <<>>, FALSE))
          ELSE /\ calls' = Append(calls, Call(d, "findVariantBySku", k, id, 0, <<>>, TRUE))
               /\ IF Falsy(id)
                  THEN Continue(d) /\ UNCHANGED resolved
                  ELSE /\ loc' = [loc EXCEPT ![d].masterInventoryItemId = id]
                       /\ resolved' = [resolved EXCEPT ![d] = @ \cup {k}]
                       /\ pc' = [pc EXCEPT ![d] =
                            IF v \in {"index", "server"} THEN "Reverse" ELSE "ReadAvailable"]
                       /\ UNCHANGED responses
               /\ UNCHANGED <<order, inventory, orderTags, req, verified, decoded>>

\* adjustInventoryLevel(rip item, +quantity) / adjustInventory(ripInventoryItemId, quantity)
Reverse(d) ==
  /\ pc[d] = "Reverse"
  /\ LET v == req[d].variant
         k == CurLine(d)
         item == loc[d].ripInventoryItemId
         delta == ReversalAdjustment(Items(d)[k].quantity)
     IN \E ok \in BOOLEAN :
          IF ~ok THEN Throw(d, Call(d, "adjust", k, item, delta, <<>>, FALSE))
          ELSE /\ calls' = Append(calls, Call(d, "adjust", k, item, delta, <<>>, TRUE))
               /\ inventory' = Adjusted(inventory, item, delta)
               /\ pc' = [pc EXCEPT ![d] =
                    CASE v = "index" -> "ReadAvailable"
                      [] v = "server" -> "Deduct"
                      [] OTHER -> "FindMaster"]
               /\ UNCHANGED <<order, orderTags, req, loc, verified, decoded,
                              resolved, responses>>

\* getAvailableInventory (?? 0) / getInventoryLevel (?? null), then the clamp test
ReadAvailable(d) ==
  /\ pc[d] = "ReadAvailable"
  /\ LET v == req[d].variant
         k == CurLine(d)
         item == loc[d].masterInventoryItemId
         a == IF v = "index" THEN NullishZero(inventory[item]) ELSE inventory[item]
     IN \E ok \in BOOLEAN :
          IF ~ok THEN Throw(d, Call(d, "readAvailable", k, item, 0, <<>>, FALSE))
          ELSE /\ calls' = Append(calls, Call(d, "readAvailable", k, item, a, <<>>, TRUE))
               /\ IF v = "index" /\ AdjustQty(Items(d)[k].quantity, a) <= 0
                  THEN /\ loc' = [loc EXCEPT ![d].masterAvailable = a, ![d].i = @ + 1]
                       /\ pc' = [pc EXCEPT ![d] = "LoopHead"]
                  ELSE /\ loc' = [loc EXCEPT ![d].masterAvailable = a]
                       /\ pc' = [pc EXCEPT ![d] = "Deduct"]
               /\ UNCHANGED <<order, inventory, orderTags, req, verified, decoded,
                              resolved, responses>>

\* the adjustment each variant sends for the master item
MasterAdjustment(v, quantity, available) ==
  CASE v = "index" -> 0 - AdjustQty(quantity, available)
    [] v = "server" -> ServerAdjustment(quantity)
    [] OTHER -> SafeAdjustment(quantity, available)

\* adjustInventoryLevel(master item, -adjustQty) / adjustInventory(master, safeAdjustment)
Deduct(d) ==
  /\ pc[d] = "Deduct"
  /\ LET v == req[d].variant
         k == CurLine(d)
         item == loc[d].masterInventoryItemId
         delta == MasterAdjustment(v, Items(d)[k].quantity, loc[d].masterAvailable)
     IN \E ok \in BOOLEAN :
          IF ~ok THEN Throw(d, Call(d, "adjust", k, item, delta, <<>>, FALSE))
          ELSE /\ calls' = Append(calls, Call(d, "adjust", k, item, delta, <<>>, TRUE))
               /\ inventory' = Adjusted(inventory, item, delta)
               /\ Continue(d)
               /\ UNCHANGED <<order, orderTags, req, verified, decoded, resolved>>

\* tagOrderRipShip / shopify.put(`/orders/${order.id}.json`, ...)
TagOrder(d) ==
  /\ pc[d] = "Tagging"
  /\ LET tags == WrittenTags(req[d].variant, order.tags)
     IN \E ok \in BOOLEAN :
          IF ~ok THEN Throw(d, Call(d, "tag", 0, 0, 0, tags, FALSE))
          ELSE /\ calls' = Append(calls, Call(d, "tag", 0, 0, 0, tags, TRUE))
               /\ orderTags' = tags
               /\ Respond(d, 200)
               /\ UNCHANGED <<order, inventory, req, loc, verified, decoded, resolved>>

Step(d) ==
  \/ \E v \in Variants : Receive(d, v)
  \/ Entry(d)
  \/ Verify(d)
  \/ Decode(d)
  \/ LoopHead(d)
  \/ GetMasterSku(d)
  \/ GetVariant(d)
  \/ FindMaster(d)
  \/ Reverse(d)
  \/ ReadAvailable(d)
  \/ Deduct(d)
  \/ TagOrder(d)

\* one delivery, processed alone
Next == Step(1)

Spec == Init /\ [][Next]_vars

\* ------------------------------------------------ the tagger on its own
\* Tag strings built from raw segments joined with commas.
Segments ==
  { <<>>, <<" ">>, <<" ", "a", " ">>, <<"a", " ", "b">>,
    Str_RIP_SHIP, <<" ">> \o Str_RIP_SHIP \o <<" ">>, <<"R", "I", "P">>,
    Str_ripship }

GeneratedTagStrings ==
  {Join(segs, <<",">>) : segs \in UNION {[1..n -> Segments] : n \in 0..MaxSegments}}

MarkerOf(v) == IF v \in {"index", "server"} THEN Str_RIP_SHIP ELSE Str_ripship

InitTag ==
  /\ \E t \in GeneratedTagStrings :
       /\ order = [id |-> 1, tags |-> t, line_items |-> <<>>]
       /\ orderTags = t
  /\ inventory = [it \in InvItems |-> 0]
  /\ calls = <<>>
  /\ pc = [d \in Deliveries |-> "Idle"]
  /\ req = [d \in Deliveries |-> NoRequest]
  /\ loc = [d \in Deliveries |-> InitLoc]
  /\ verified = [d \in Deliveries |-> "none"]
  /\ decoded = [d \in Deliveries |-> FALSE]
  /\ resolved = [d \in Deliveries |-> {}]
  /\ responses = [d \in Deliveries |-> <<>>]

\* the tagger of variant v runs on the order's current tag string
ApplyTagger(v) ==
  /\ Len(calls) < MaxApply
  /\ orderTags' = WrittenTags(v, orderTags)
  /\ calls' = Append(calls, Call(0, "tag", 0, 0, 0, orderTags', TRUE))
  /\ UNCHANGED <<order, inventory, pc, req, loc, verified, decoded, resolved, responses>>

NextTag == \E v \in Variants : ApplyTagger(v)

SpecTag == InitTag /\ [][NextTag]_vars

\* ------------------------------------------------------ vocabulary of claims
SelectCalls(cs, d) == SelectSeq(cs, LAMBDA c : c.d = d)

CallsOf(d) == SelectCalls(calls, d)

Done(d) == pc[d] = "Responded"

SignatureValid(d) == req[d].hmacHeader = Header(Digest(req[d].rawBody))

Quantity(k) == order.line_items[k].quantity

SoldItemOf(k) == InventoryItemOfVariant(order.line_items[k].variant_id)

IsRip(k) == ProductMasterSku(order.line_items[k].product_id) # NoValue

TagSet(s) == LET ts == ParseTags(s) IN {ts[k] : k \in 1..Len(ts)}

Count(ts, t) == Cardinality({k \in 1..Len(ts) : ts[k] = t})

AdjustCalls(d) == LET cs == CallsOf(d) IN {n \in 1..Len(cs) : cs[n].op = "adjust"}

TagCalls(d) == LET cs == CallsOf(d) IN {n \in 1..Len(cs) : cs[n].op = "tag"}

FailedCalls(d) == LET cs == CallsOf(d) IN {n \in 1..Len(cs) : ~cs[n].ok}

\* the amount taken from the master item after the read at position n
Deduction(d, n) ==
  LET cs == CallsOf(d)
  IN IF n < Len(cs) /\ cs[n + 1].op = "adjust" /\ cs[n + 1].item = cs[n].item
        /\ cs[n + 1].line = cs[n].line
     THEN 0 - cs[n + 1].val
     ELSE 0

\* ------------------------------------------------------------------ claims
\* C1: nothing is decoded and no remote call is issued unless signature
\* verification of the raw body has succeeded; a delivery whose signature
\* does not verify is answered 401 and does nothing else.
C1_NothingBeforeVerification ==
  \A d \in Deliveries :
    /\ (decoded[d] \/ CallsOf(d) # <<>>) => verified[d] = "true"
    /\ (Done(d) /\ req[d].method = "POST" /\ ~SignatureValid(d))
         => responses[d] = <<401>> /\ ~decoded[d] /\ CallsOf(d) = <<>>

\* C2: no step of a delivery processed alone takes a master item's available
\* count from a value >= 0 to a value < 0.
C2_MasterNeverDrivenNegative ==
  [][\A m \in MasterItems :
       (inventory[m] # Null /\ inventory[m] >= 0) => inventory'[m] >= 0]_vars

\* C3: after a read of the master available count a for a line item of
\* quantity q, the amount deducted is min(q, max(a, 0)) (null read as 0), and
\* a - deduction >= 0 whenever a >= 0.
C3_DeductionIsClamp ==
  \A d \in Deliveries :
    responses[d] = <<200>> =>
      \A n \in 1..Len(CallsOf(d)) :
        CallsOf(d)[n].op = "readAvailable" =>
          LET a == NullishZero(CallsOf(d)[n].val)
              q == Quantity(CallsOf(d)[n].line)
              ded == Deduction(d, n)
          IN /\ ded = Min(q, Max(a, 0))
             /\ a >= 0 => a - ded >= 0

\* C4: when the master available count read is 0, null or negative, no
\* adjustment call is issued against the master item, the sold item still
\* gets +q and the order is still tagged.
C4_NoCallWhenNothingToDeduct ==
  \A d \in Deliveries :
    responses[d] = <<200>> =>
      \A n \in 1..Len(CallsOf(d)) :
        LET cs == CallsOf(d)
        IN (cs[n].op = "readAvailable" /\ (cs[n].val = Null \/ cs[n].val <= 0)) =>
             /\ \A m \in AdjustCalls(d) :
                  ~(cs[m].line = cs[n].line /\ cs[m].item = cs[n].item)
             /\ \E m \in AdjustCalls(d) :
                  /\ cs[m].line = cs[n].line
                  /\ cs[m].item = SoldItemOf(cs[n].line)
                  /\ cs[m].val = Quantity(cs[n].line)
             /\ TagCalls(d) # {}

\* the adjust calls of delivery d for line item k against its sold item
ReversalCalls(d, k) ==
  {n \in AdjustCalls(d) :
     CallsOf(d)[n].line = k /\ CallsOf(d)[n].item = SoldItemOf(k)}

RECURSIVE SumQuantities(_, _)
\* total quantity of the first n line items that are sold from item it
SumQuantities(n, it) ==
  IF n = 0 THEN 0
  ELSE SumQuantities(n - 1, it) + (IF SoldItemOf(n) = it THEN Quantity(n) ELSE 0)

\* C5: every line item resolved for reconciliation has exactly one adjust
\* call against its sold item, of exactly +q, once the handler is past the
\* reversal; after a successful delivery the stock of a resolvable sold item
\* has grown by the quantities sold, whatever the master count was.
C5_ReversalExactlyOnce ==
  \A d \in Deliveries :
    /\ \A k \in resolved[d] :
         ~(pc[d] = "Reverse" /\ CurLine(d) = k) =>
            /\ Cardinality(ReversalCalls(d, k)) = 1
            /\ \A n \in ReversalCalls(d, k) : CallsOf(d)[n].val = Quantity(k)
    /\ \A it \in SoldItems :
         (/\ d = 1
          /\ responses[d] = <<200>>
          /\ \A k \in 1..Len(order.line_items) : SoldItemOf(k) = it => k \in resolved[d])
           => inventory[it] = SumQuantities(Len(order.line_items), it)

\* a resolved item was reversed although the master had less than q
C5_Witness ==
  /\ responses[1] = <<200>>
  /\ \E n \in 1..Len(CallsOf(1)) :
       /\ CallsOf(1)[n].op = "readAvailable"
       /\ NullishZero(CallsOf(1)[n].val) < Quantity(CallsOf(1)[n].line)
       /\ CallsOf(1)[n].line \in resolved[1]
       /\ inventory[SoldItemOf(CallsOf(1)[n].line)] >= 2

\* C6: when the tag string read already contains the marker tag, the tag set
\* written equals the tag set read and the marker is not added again; after
\* any application the marker is present, so further applications change
\* nothing.
C6_TaggingIdempotent ==
  [][\A v \in Variants :
       ApplyTagger(v) =>
         /\ Includes(ParseTags(orderTags'), MarkerOf(v))
         /\ Includes(ParseTags(orderTags), MarkerOf(v)) =>
              /\ TagSet(orderTags') = TagSet(orderTags)
              /\ Count(ParseTags(orderTags'), MarkerOf(v))
                   <= Count(ParseTags(orderTags), MarkerOf(v))
              /\ WrittenTags(v, orderTags') = orderTags']_vars

\* the tagger ran twice on a string that carried the marker and another tag
C6_Witness ==
  /\ Len(calls) = 2
  /\ calls[1].tags = calls[2].tags
  /\ Includes(ParseTags(order.tags), Str_RIP_SHIP)
  /\ Cardinality(TagSet(orderTags)) >= 2

\* C7: every non-empty trimmed tag of the tag string read is in the tag
\* string written, and the only tag the write can add is the marker.
C7_TagsPreserved ==
  [][\A v \in Variants :
       ApplyTagger(v) =>
         /\ TagSet(orderTags) \subseteq TagSet(orderTags')
         /\ TagSet(orderTags') \subseteq TagSet(orderTags) \cup {MarkerOf(v)}]_vars

\* a write that added the marker to two existing tags
C7_Witness ==
  /\ Len(calls) = 1
  /\ Cardinality(TagSet(order.tags)) = 2
  /\ Cardinality(TagSet(orderTags)) = 3

\* the precondition of C8: a verified, decoded order without virtual-SKU items
NoRipDelivery(d) ==
  /\ verified[d] = "true"
  /\ decoded[d]
  /\ \A k \in 1..Len(order.line_items) : ~IsRip(k)

\* C8 as stated: such a delivery issues no adjustment and no tag write and
\* is answered 200.
C8_NoMetadataNoEffects ==
  \A d \in Deliveries :
    NoRipDelivery(d) =>
      /\ AdjustCalls(d) = {}
      /\ TagCalls(d) = {}
      /\ Done(d) => responses[d] = <<200>>

\* C8 amended: no adjustment and no tag write; answered 200 unless a
\* metadata read failed, and then answered 500.
C8_NoMetadataNoEffectsUnlessReadFails ==
  \A d \in Deliveries :
    NoRipDelivery(d) =>
      /\ AdjustCalls(d) = {}
      /\ TagCalls(d) = {}
      /\ Done(d) =>
           responses[d] = IF FailedCalls(d) = {} THEN <<200>> ELSE <<500>>

\* a verified order of plain items went through all its metadata reads
C8_Witness ==
  /\ NoRipDelivery(1)
  /\ Len(order.line_items) = 2
  /\ Len(CallsOf(1)) = 2
  /\ responses[1] = <<200>>

\* C9: a delivery whose signature header is wrong, absent or malformed is
\* answered 401, never 500, by the variants that verify, with no side effect.
C9_BadSignatureUnauthorized ==
  \A d \in Deliveries :
    (/\ Done(d)
     /\ req[d].variant \in {"index", "server", "pages"}
     /\ req[d].method = "POST"
     /\ ~SignatureValid(d))
      => responses[d] = <<401>> /\ CallsOf(d) = <<>> /\ ~decoded[d]

\* C10: a failed remote call is the last call of its delivery (nothing for
\* later items, no tag write, no retry, no compensation), the delivery is
\* answered 500, and the remote store keeps what was applied before.
C10_FailureAborts ==
  /\ [](\A d \in Deliveries :
          \A n \in FailedCalls(d) :
            /\ n = Len(CallsOf(d))
            /\ Done(d)
            /\ responses[d] = <<500>>)
  /\ [][(FailedCalls(1) # {}) =>
          (inventory' = inventory /\ orderTags' = orderTags)]_vars

\* the call for item 2 failed after item 1 had been adjusted
C10_Witness ==
  /\ \E n \in FailedCalls(1) : CallsOf(1)[n].line = 2
  /\ \E n \in AdjustCalls(1) : CallsOf(1)[n].line = 1 /\ CallsOf(1)[n].ok
  /\ inventory[SoldItemOf(1)] > 0
  /\ responses[1] = <<500>>

\* the sum of the adjustments of calls cs that were applied to item it
SumDeltas(cs, it) ==
  LET applied == SelectSeq(cs, LAMBDA c : c.op = "adjust" /\ c.ok /\ c.item = it)
      sum[n \in 0..Len(applied)] == IF n = 0 THEN 0 ELSE sum[n - 1] + applied[n].val
  IN sum[Len(applied)]

\* the call at position n of delivery d is a failed master step
FailedMasterStep(d, n) ==
  LET c == CallsOf(d)[n]
  IN /\ ~c.ok
     /\ \/ c.op = "readAvailable"
        \/ c.op = "adjust" /\ c.item \in MasterItems

\* C11: when the read of the master count or the master deduction fails
\* after the reversal of the same line item, the +q stays on the sold item:
\* no negative adjustment is ever issued against a sold item, the sold stock
\* is the sum of the reversals applied, and the delivery is answered 500.
C11_ReversalNotCompensated ==
  \A d \in Deliveries :
    LET cs == CallsOf(d)
    IN /\ \A n \in 1..Len(cs) :
            (cs[n].op = "adjust" /\ cs[n].item \in SoldItems) => cs[n].val >= 0
       /\ \A n \in 1..Len(cs) :
            FailedMasterStep(d, n) =>
              LET k == cs[n].line
              IN /\ responses[d] = <<500>>
                 /\ \E m \in 1..(n - 1) :
                      /\ cs[m].op = "adjust" /\ cs[m].ok
                      /\ cs[m].line = k
                      /\ cs[m].item = SoldItemOf(k)
                      /\ cs[m].val = Quantity(k)
                 /\ inventory[SoldItemOf(k)] = SumDeltas(calls, SoldItemOf(k))

\* the master read of item 1 failed and the sold item keeps its +2
C11_Witness ==
  /\ \E n \in 1..Len(CallsOf(1)) :
       FailedMasterStep(1, n) /\ CallsOf(1)[n].op = "readAvailable"
         /\ CallsOf(1)[n].line = 1
  /\ Quantity(1) = 2
  /\ inventory[SoldItemOf(1)] = 2
  /\ responses[1] = <<500>>

\* positions in the calls of delivery d
ReadCalls(d, k) ==
  {n \in 1..Len(CallsOf(d)) :
     CallsOf(d)[n].op = "readAvailable" /\ CallsOf(d)[n].line = k}

MasterAdjustCalls(d, k) ==
  {n \in AdjustCalls(d) :
     CallsOf(d)[n].line = k /\ CallsOf(d)[n].item \in MasterItems}

\* the variants that read the master count before they deduct
ReadingVariants == {"index", "handler", "pages"}

InitConc ==
  /\ \E q \in 1..MaxQty :
       order = [id |-> 1, tags |-> <<>>, line_items |-> <<LineItem(1, q)>>]
  /\ \E a \in 0..MaxAvail :
       inventory = [it \in InvItems |-> IF it \in MasterItems THEN a ELSE 0]
  /\ orderTags = order.tags
  /\ calls = <<>>
  /\ pc = [d \in Deliveries |-> "Idle"]
  /\ req = [d \in Deliveries |-> NoRequest]
  /\ loc = [d \in Deliveries |-> InitLoc]
  /\ verified = [d \in Deliveries |-> "none"]
  /\ decoded = [d \in Deliveries |-> FALSE]
  /\ resolved = [d \in Deliveries |-> {}]
  /\ responses = [d \in Deliveries |-> <<>>]

\* A correctly signed POST (the platform's webhook, a retry of it, or a
\* signed body that is not JSON) reaches the deployed variant v.
ReceiveSigned(d, v) ==
  /\ pc[d] = "Idle"
  /\ \A e \in Deliveries : req[e].variant \in {"none", v}
  /\ \E body \in {[json |-> TRUE], [json |-> FALSE]} :
       /\ v = "handler" => body.json
       /\ req' = [req EXCEPT ![d] =
            [variant |-> v, method |-> "POST",
             hmacHeader |-> Header(Digest(body)), rawBody |-> body]]
  /\ pc' = [pc EXCEPT ![d] = "Entry"]
  /\ loc' = [loc EXCEPT ![d] = InitLoc]
  /\ UNCHANGED <<order, inventory, orderTags, calls, verified, decoded,
                 resolved, responses>>

StepSigned(d) ==
  \/ \E v \in Variants : ReceiveSigned(d, v)
  \/ Entry(d)
  \/ Verify(d)
  \/ Decode(d)
  \/ LoopHead(d)
  \/ GetMasterSku(d)
  \/ GetVariant(d)
  \/ FindMaster(d)
  \/ Reverse(d)
  \/ ReadAvailable(d)
  \/ Deduct(d)
  \/ TagOrder(d)

NextConc == StepSigned(1) \/ StepSigned(2)

SpecConc == InitConc /\ [][NextConc]_vars

\* C13: with concurrent deliveries of the clamping variants, no adjustment
\* takes a master item's available count from >= 0 to < 0.
C13_MasterNeverNegativeConcurrently ==
  [][(\A d \in Deliveries : req[d].variant \in ReadingVariants \cup {"none"}) =>
       \A m \in MasterItems :
         (inventory[m] # Null /\ inventory[m] >= 0) => inventory'[m] >= 0]_vars

\* ------------------------------------------------- successive deliveries
\* A second, signed delivery of the same payload reaches the deployed
\* variant after the first delivery has been answered.
InitSeq ==
  /\ Init
  /\ Len(order.line_items) <= 1

NextSeq ==
  \/ StepSigned(1)
  \/ Done(1) /\ StepSigned(2)

SpecSeq == InitSeq /\ [][NextSeq]_vars

\* delivery d passed verification with a body that is not JSON and has
\* left the decoding step
BadJsonHandled(d) ==
  /\ verified[d] = "true"
  /\ ~req[d].rawBody.json
  /\ pc[d] # "Decoding"

\* C14: a verified delivery whose body is not parseable JSON is answered 500
\* by the handler itself, with no remote call and nothing decoded, and the
\* next delivery can then be taken.
C14_BadJsonCaught ==
  /\ \A d \in Deliveries :
       BadJsonHandled(d) =>
         /\ Done(d)
         /\ responses[d] = <<500>>
         /\ CallsOf(d) = <<>>
         /\ ~decoded[d]
  /\ (BadJsonHandled(1) /\ pc[2] = "Idle") => ENABLED StepSigned(2)

\* after the 500 for the unparseable body, the next delivery was processed
C14_Witness ==
  /\ BadJsonHandled(1)
  /\ responses[1] = <<500>>
  /\ responses[2] = <<200>>
  /\ AdjustCalls(2) # {}

\* line item k carries a master SKU that names no variant
MasterMissing(k) ==
  IsRip(k) /\ Falsy(MasterItemOfSku(ProductMasterSku(order.line_items[k].product_id)))

\* C15: for a detected line item whose master SKU matches no variant the
\* handler issues no inventory adjustment at all, and the miss alone does
\* not lead to an error response.
C15_NoAdjustmentWhenMasterMissing ==
  \A d \in Deliveries :
    /\ \A k \in 1..Len(order.line_items) :
         MasterMissing(k) => \A n \in AdjustCalls(d) : CallsOf(d)[n].line # k
    /\ (Done(d) /\ decoded[d] /\ FailedCalls(d) = {}) => responses[d] = <<200>>

\* line item k has a missing or falsy product id, variant id or quantity
FalsyItem(k) ==
  \/ Falsy(order.line_items[k].product_id)
  \/ Falsy(order.line_items[k].variant_id)
  \/ Falsy(order.line_items[k].quantity)

\* C17: a line item with a falsy product id, variant id or quantity gets no
\* remote call at all (no metadata read, no variant read, no adjustment) and
\* is not counted as reconciled.
C17_FalsyItemSkipped ==
  \A d \in Deliveries :
    \A k \in 1..Len(order.line_items) :
      FalsyItem(k) =>
        /\ \A n \in 1..Len(CallsOf(d)) : CallsOf(d)[n].line # k
        /\ k \notin resolved[d]

\* the handler of delivery d has read master_sku metadata for line item k
Detected(d, k) ==
  /\ IsRip(k)
  /\ \E n \in 1..Len(CallsOf(d)) :
       /\ CallsOf(d)[n].op = "getMasterSku"
       /\ CallsOf(d)[n].line = k
       /\ CallsOf(d)[n].ok

\* no remote call of delivery d failed before the tagging step
NoFailureBeforeTagging(d) ==
  \A n \in FailedCalls(d) : CallsOf(d)[n].op = "tag"

\* C16: the tag write is issued at most once per delivery, only after a line
\* item was detected and with no earlier failed call, and a finished
\* delivery with a detected item and no earlier failure has issued it.
C16_TagIffDetected ==
  \A d \in Deliveries :
    /\ Cardinality(TagCalls(d)) <= 1
    /\ TagCalls(d) # {} =>
         /\ \E k \in 1..Len(order.line_items) : Detected(d, k)
         /\ NoFailureBeforeTagging(d)
    /\ (/\ Done(d)
        /\ \E k \in 1..Len(order.line_items) : Detected(d, k)
        /\ NoFailureBeforeTagging(d))
         => TagCalls(d) # {}

\* the only detected item was abandoned (no master variant), yet the order
\* was tagged
C16_Witness ==
  /\ req[1].variant = "index"
  /\ Len(order.line_items) = 1
  /\ MasterMissing(1)
  /\ AdjustCalls(1) = {}
  /\ TagCalls(1) # {}
  /\ responses[1] = <<200>>

\* ------------------------------------------- one delivery as a pure function
\* the body of the line-item loop when every remote call succeeds: the
\* inventory after line item li, from inventory inv
ItemOutcome(v, li, inv) ==
  LET sku == IF v = "server" THEN VariantMasterSku(li.variant_id)
             ELSE ProductMasterSku(li.product_id)
      sold == InventoryItemOfVariant(li.variant_id)
      master == MasterItemOfSku(sku)
      reversed == Adjusted(inv, sold, ReversalAdjustment(li.quantity))
  IN IF SkipsItem(v, li) \/ sku = NoValue THEN inv
     ELSE IF v = "index"
     THEN IF Falsy(sold) \/ Falsy(master) THEN inv
          ELSE LET a == NullishZero(reversed[master])
               IN IF AdjustQty(li.quantity, a) <= 0 THEN reversed
                  ELSE Adjusted(reversed, master, MasterAdjustment(v, li.quantity, a))
     ELSE IF v = "server"
     THEN IF Falsy(master) THEN inv
          ELSE Adjusted(reversed, master, MasterAdjustment(v, li.quantity, 0))
     ELSE IF Falsy(master) THEN reversed
          ELSE Adjusted(reversed, master,
                        MasterAdjustment(v, li.quantity, reversed[master]))

RECURSIVE RunItems(_, _, _)
\* the loop over the line items, in the order given
RunItems(v, items, inv) ==
  IF items = <<>> THEN inv
  ELSE RunItems(v, Tail(items), ItemOutcome(v, Head(items), inv))

RECURSIVE HasRipShip(_, _)
\* the flag (or the non-empty ripLineItems) left by the loop
HasRipShip(v, items) ==
  IF items = <<>> THEN FALSE
  ELSE \/ /\ ~SkipsItem(v, Head(items))
          /\ (IF v = "server" THEN VariantMasterSku(Head(items).variant_id)
              ELSE ProductMasterSku(Head(items).product_id)) # NoValue
       \/ HasRipShip(v, Tail(items))

\* the tag string of the order after a delivery without failure
RunTags(v, items, tags) ==
  IF (v = "server" /\ HasRipShip(v, items)) \/ (v # "server" /\ ShouldTag(HasRipShip(v, items)))
  THEN WrittenTags(v, tags) ELSE tags

\* the inventory before any adjustment of the call log was applied
InitialInventory ==
  [it \in InvItems |->
     IF inventory[it] = Null THEN Null ELSE inventory[it] - SumDeltas(calls, it)]

\* the line items of the order rearranged by permutation p
Permuted(items, p) == [k \in 1..Len(items) |-> items[p[k]]]

\* C18: after a delivery answered 200 with no failed call, the stock of
\* every item and the tag set are what the loop yields for every
\* permutation of the order's line items.
C18_PermutationIndependent ==
  (Done(1) /\ responses[1] = <<200>> /\ FailedCalls(1) = {}) =>
    \A p \in Permutations(1..Len(order.line_items)) :
      /\ inventory = RunItems(req[1].variant, Permuted(order.line_items, p),
                              InitialInventory)
      /\ TagSet(orderTags) =
           TagSet(RunTags(req[1].variant, Permuted(order.line_items, p), order.tags))

\* two line items of different quantities drew on one master item that held
\* less than their total
C18_Witness ==
  /\ Done(1) /\ responses[1] = <<200>> /\ FailedCalls(1) = {}
  /\ req[1].variant = "index"
  /\ Len(order.line_items) = 2
  /\ \A k \in 1..2 : order.line_items[k].product_id = 1
  /\ Quantity(1) > Quantity(2) /\ Quantity(2) > 0
  /\ InitialInventory[200] > 0
  /\ InitialInventory[200] < Quantity(1) + Quantity(2)
  /\ inventory[200] = 0

\* both deliveries of the order were answered 200 and no call of either failed
BothDelivered ==
  /\ responses[1] = <<200>> /\ responses[2] = <<200>>
  /\ FailedCalls(1) = {} /\ FailedCalls(2) = {}

\* C19: a second delivery of the same payload, processed after the first
\* has tagged the order, repeats the reversal of every line item the first
\* one reversed and deducts again from what the first left on the master:
\* the stock is that of the loop run twice, and the second delivery issues
\* the same lookups, so nothing stops it before it adjusts.
C19_RedeliveryRepeatsAdjustments ==
  BothDelivered =>
    /\ \A k \in 1..Len(order.line_items) :
         /\ Cardinality(ReversalCalls(2, k)) = Cardinality(ReversalCalls(1, k))
         /\ \A n \in ReversalCalls(2, k) : CallsOf(2)[n].val = Quantity(k)
         /\ k \in resolved[1] => k \in resolved[2]
    /\ inventory = RunItems(req[1].variant, order.line_items,
                            RunItems(req[1].variant, order.line_items, InitialInventory))
    /\ Cardinality(TagCalls(2)) = Cardinality(TagCalls(1))
    /\ \A n \in AdjustCalls(2) :
         (req[2].variant = "index" /\ CallsOf(2)[n].item \in MasterItems) =>
            /\ CallsOf(2)[n - 1].op = "readAvailable"
            /\ 0 - CallsOf(2)[n].val
                 = AdjustQty(Quantity(CallsOf(2)[n].line), CallsOf(2)[n - 1].val)

\* the marker was written by the first delivery, and the second one reversed
\* the sold item again and took a second unit from the master
C19_Witness ==
  /\ BothDelivered
  /\ req[1].variant = "index"
  /\ TagCalls(1) # {}
  /\ Includes(ParseTags(orderTags), Str_RIP_SHIP)
  /\ Len(order.line_items) = 1
  /\ Quantity(1) = 1
  /\ inventory[SoldItemOf(1)] = 2
  /\ InitialInventory[200] = 2
  /\ inventory[200] = 0

\* ------------------------------------------------------------- progress
\* every awaited remote call settles and the event loop runs the
\* continuation: a handler that can take a step eventually takes one
SpecFair == Spec /\ WF_vars(Next)

\* the handler states of the specification, in their order
Stage(p) ==
  CASE p = "Idle" -> 0
    [] p = "Entry" -> 1
    [] p = "Verifying" -> 2
    [] p = "Decoding" -> 3
    [] p = "Tagging" -> 5
    [] p = "Responded" -> 6
    [] OTHER -> 4

ResponseStatuses == {200, 401, 405, CatchStatus}

\* no remote call of delivery d was issued twice, and none after a failure
NoCallRetried(d) ==
  LET cs == CallsOf(d)
  IN /\ \A n, m \in 1..Len(cs) :
          (n < m /\ cs[n].op = cs[m].op /\ cs[n].line = cs[m].line) =>
             cs[n].item # cs[m].item
     /\ \A n \in FailedCalls(d) : n = Len(cs)

\* C20: a received delivery is eventually answered; it is answered once,
\* with 200, 401, 405 or 500; the handler moves through Verifying, Decoding,
\* Reconciling and Tagging in that order and never back; no call is retried.
C20_EventuallyRespondedOnce ==
  /\ (pc[1] # "Idle") ~> Done(1)
  /\ [](/\ Len(responses[1]) <= 1
        /\ Done(1) <=> Len(responses[1]) = 1
        /\ \A n \in 1..Len(responses[1]) : responses[1][n] \in ResponseStatuses
        /\ NoCallRetried(1))
  /\ [][/\ Stage(pc'[1]) >= Stage(pc[1])
        /\ Stage(pc'[1]) = Stage(pc[1]) => Stage(pc[1]) = 4]_vars

\* a delivery went through every state and was answered 200
C20_Witness ==
  /\ Done(1)
  /\ responses[1] = <<200>>
  /\ req[1].variant = "index"
  /\ verified[1] = "true"
  /\ decoded[1]
  /\ AdjustCalls(1) # {}
  /\ TagCalls(1) # {}


\* the metadata lookups of delivery d that failed
FailedMetadataCalls(d) ==
  LET cs == CallsOf(d)
  IN {n \in 1..Len(cs) : cs[n].op = "getMasterSku" /\ ~cs[n].ok}

\* C21: in server.js every inventory adjustment and the tag write come
\* after a completed metadata lookup of every line item that passes the
\* guard; a delivery one of whose metadata lookups failed is answered 500
\* with no inventory adjustment and no tag write.
C21_NoAdjustmentBeforeAllMetadata ==
  \A d \in Deliveries :
    req[d].variant = "server" =>
      LET cs == CallsOf(d)
      IN /\ \A n \in 1..Len(cs) :
              cs[n].op \in {"adjust", "tag"} =>
                \A k \in 1..Len(order.line_items) :
                  ~SkipsItem("server", order.line_items[k]) =>
                    \E m \in 1..(n - 1) :
                      cs[m].op = "getMasterSku" /\ cs[m].line = k /\ cs[m].ok
         /\ FailedMetadataCalls(d) # {} =>
              /\ AdjustCalls(d) = {}
              /\ TagCalls(d) = {}
              /\ responses[d] = <<CatchStatus>>

\* the first line item was found to be rip & ship, the lookup of the second
\* failed, and nothing was adjusted
C21_Witness ==
  /\ req[1].variant = "server"
  /\ Len(order.line_items) = 2
  /\ IsRip(1)
  /\ \E n \in FailedMetadataCalls(1) : CallsOf(1)[n].line = 2
  /\ \E n \in 1..Len(CallsOf(1)) :
       CallsOf(1)[n].op = "getMasterSku" /\ CallsOf(1)[n].line = 1 /\ CallsOf(1)[n].ok
  /\ AdjustCalls(1) = {}
  /\ responses[1] = <<500>>

====
